---- MODULE Spec2Model ----
(***************************************************************************)
(* State-machine model of the user-management API: auth.py (password      *)
(* hashing, JWT issue/verify, identity resolution, registration), the     *)
(* HTTP handlers of main.py, and the tables declared in models.py.         *)
(* Time is in whole seconds (the granularity of the JWT exp claim).        *)
(***************************************************************************)
EXTENDS Integers, Sequences, FiniteSets, Bags, TLC

VARIABLES
    users,      \* table "user": sequence of rows, row i has id = i
    items,      \* table "item": set of rows
    pending,    \* bag of create_user calls suspended between lookup and commit
    now,        \* datetime.utcnow(), in seconds
    held,       \* the access token the client kept from its last login
    req         \* the request being served / last served, with its outcome

vars == <<users, items, pending, now, held, req>>

(***************************************************************************)
(* Bounds of the model.                                                    *)
(***************************************************************************)
MaxTime == 3600         \* the clock stops advancing here
TickStep == 1800        \* seconds the clock advances in one step
MaxItemId == 2          \* no item row gets an id above this
MaxPending == 2         \* create_user calls suspended at the same time

(***************************************************************************)
(* Inputs.                                                                 *)
(***************************************************************************)
None == [none |-> TRUE]                 \* Python's None, where an object may stand
Absent == "None"                        \* Python's None, where a string may stand
Unset == "Unset"                        \* a field the request body leaves out
Usernames == {"alice", "bob"}
Passwords == {"pw", "pw2"}
ItemNames == {"pen", "cup"}

\* UserCreate bodies: a first user, one that repeats its email under another
\* username, and one that shares nothing with it.
Candidates ==
    { [username |-> "alice", email |-> "a@x.com", password |-> "pw"],
      [username |-> "bob",   email |-> "a@x.com", password |-> "pw"],
      [username |-> "bob",   email |-> "b@x.com", password |-> "pw2"] }

(***************************************************************************)
(* auth.py: settings.                                                      *)
(***************************************************************************)
SECRET_KEY == "SECRET_KEY"
ACCESS_TOKEN_EXPIRE_MINUTES == 30

\* timedelta(minutes=m)
Minutes(m) == [seconds |-> 60 * m]

(***************************************************************************)
(* auth.py: password hashing.  bcrypt is one-way; the digest is kept as an *)
(* opaque tagged value that only verify_password compares.                 *)
(***************************************************************************)
hash_password(password) == <<"bcrypt", password>>

verify_password(plain_password, hashed_password) ==
    hashed_password = <<"bcrypt", plain_password>>

(***************************************************************************)
(* auth.py: JWT.  A token is its claims plus the key that signed it.  A    *)
(* claim that is absent reads as Absent.                                   *)
(***************************************************************************)
\* timedelta(seconds=n)
Seconds(n) == [seconds |-> n]

\* "if expires_delta:": None and timedelta(0) are both falsy.
Truthy(expires_delta) == expires_delta # None /\ expires_delta.seconds # 0

create_access_token(data, expires_delta, utcnow) ==
    LET expire == IF Truthy(expires_delta)
                  THEN utcnow + expires_delta.seconds
                  ELSE utcnow + Minutes(ACCESS_TOKEN_EXPIRE_MINUTES).seconds
    IN  [sub |-> data.sub, type |-> "access", exp |-> expire, key |-> SECRET_KEY]

\* jose.jwt.decode(token, SECRET_KEY, algorithms=[ALGORITHM]): the signature
\* must verify and exp must not lie before the current second.
JwtDecodes(token, utcnow) ==
    /\ token.key = SECRET_KEY
    /\ ~(token.exp < utcnow)

decode_access_token(token, utcnow) ==
    IF JwtDecodes(token, utcnow)
    THEN [sub |-> token.sub, type |-> token.type, exp |-> token.exp]
    ELSE None

\* The same token with its signature altered.
Tamper(token) == [token EXCEPT !.key = "tampered"]

(***************************************************************************)
(* models.py: the "user" table behind the session.                         *)
(***************************************************************************)
\* select(User).where(User.username == username) ... scalar_one_or_none().
\* The unique index on username leaves at most one row to find.
get_user_by_username(rows, username) ==
    LET found == {i \in DOMAIN rows : rows[i].username = username}
    IN  IF found = {} THEN None
        ELSE rows[CHOOSE i \in found : TRUE]

\* username and email are declared unique=True: an INSERT that repeats either
\* is refused by the database with an IntegrityError.
UniqueViolationNoEmail(rows, row) ==
    \E i \in DOMAIN rows : rows[i].username = row.username

UniqueViolation(rows, row) ==
    \E i \in DOMAIN rows :
        \/ rows[i].username = row.username
        \/ rows[i].email = row.email

\* session.add(user); commit(); refresh(user): the row gets the next id.
InsertUser(rows, row) ==
    Append(rows, [id |-> Len(rows) + 1,
                  username |-> row.username,
                  email |-> row.email,
                  hashed_password |-> row.hashed_password,
                  is_active |-> row.is_active,
                  is_superuser |-> row.is_superuser])

\* response_model=UserRead
UserRead(user) ==
    [id |-> user.id, username |-> user.username, email |-> user.email,
     is_active |-> user.is_active, is_superuser |-> user.is_superuser]

(***************************************************************************)
(* auth.py: create_user.                                                   *)
(***************************************************************************)
ExistingUserUnchecked(rows, user_create) == None

\* existing_user = await get_user_by_username(session, user_create.username)
ExistingUser(rows, user_create) ==
    get_user_by_username(rows, user_create.username)

NewUserSuper(user_create) ==
    [username |-> user_create.username,
     email |-> user_create.email,
     hashed_password |-> hash_password(user_create.password),
     is_active |-> TRUE,
     is_superuser |-> TRUE]

\* User(username=..., email=..., hashed_password=..., is_active=True,
\*      is_superuser=False)
NewUser(user_create) ==
    [username |-> user_create.username,
     email |-> user_create.email,
     hashed_password |-> hash_password(user_create.password),
     is_active |-> TRUE,
     is_superuser |-> FALSE]

\* main.py register, the ValueError branch.
DuplicateUsername ==
    [status |-> 400, detail |-> "Username already exists", body |-> None]

\* The commit's IntegrityError is caught nowhere: an internal server error.
InternalError ==
    [status |-> 500, detail |-> "Internal Server Error", body |-> None]

Created(user) ==
    [status |-> 201, detail |-> Absent, body |-> UserRead(user)]

\* The second half of create_user, from session.add to the return: the table
\* and the response of /register.
CommitUser(rows, user_create) ==
    LET row == NewUser(user_create)
    IN  IF UniqueViolation(rows, row)
        THEN [rows |-> rows, resp |-> InternalError]
        ELSE LET after == InsertUser(rows, row)
             IN  [rows |-> after, resp |-> Created(after[Len(after)])]

(***************************************************************************)
(* auth.py: authenticate_user, and main.py: login.                         *)
(***************************************************************************)
authenticate_user(rows, username, password) ==
    LET user == get_user_by_username(rows, username)
    IN  IF user = None THEN None
        ELSE IF ~verify_password(password, user.hashed_password) THEN None
        ELSE user

LoginFailedTelling(rows, username) ==
    [status |-> 401,
     detail |-> IF get_user_by_username(rows, username) = None
                THEN "User not found"
                ELSE "Incorrect username or password",
     headers |-> "WWW-Authenticate: Bearer",
     body |-> None]

\* raise HTTPException(401, "Incorrect username or password", ...)
LoginFailed(rows, username) ==
    [status |-> 401,
     detail |-> "Incorrect username or password",
     headers |-> "WWW-Authenticate: Bearer",
     body |-> None]

LoginTokenForFirstUser(rows, user, utcnow) ==
    create_access_token([sub |-> rows[1].username],
                        Minutes(ACCESS_TOKEN_EXPIRE_MINUTES), utcnow)

\* create_access_token(data={"sub": user.username}, expires_delta=...)
LoginToken(rows, user, utcnow) ==
    create_access_token([sub |-> user.username],
                        Minutes(ACCESS_TOKEN_EXPIRE_MINUTES), utcnow)

login(rows, username, password, utcnow) ==
    LET user == authenticate_user(rows, username, password)
    IN  IF user = None
        THEN LoginFailed(rows, username)
        ELSE [status |-> 200,
              detail |-> Absent,
              headers |-> Absent,
              body |-> [access_token |-> LoginToken(rows, user, utcnow),
                        token_type |-> "bearer",
                        user |-> [id |-> user.id,
                                  username |-> user.username,
                                  email |-> user.email]]]

(***************************************************************************)
(* auth.py: get_current_user and get_current_active_superuser.             *)
(***************************************************************************)
Rejected(status, detail, headers) ==
    [status |-> status, detail |-> detail, headers |-> headers, user |-> None]

get_current_user_any(token, rows, utcnow) ==
    LET payload == decode_access_token(token, utcnow)
    IN  IF payload = None
        THEN Rejected(401, "Invalid authentication credentials",
                      "WWW-Authenticate: Bearer")
        ELSE IF payload.sub = Absent
        THEN Rejected(401, "Invalid authentication credentials", Absent)
        ELSE LET user == get_user_by_username(rows, payload.sub)
             IN  IF user = None
                 THEN Rejected(401, "User not found", Absent)
                 ELSE [status |-> 200, detail |-> Absent, headers |-> Absent,
                       user |-> user]

get_current_user(token, rows, utcnow) ==
    LET payload == decode_access_token(token, utcnow)
    IN  IF payload = None
        THEN Rejected(401, "Invalid authentication credentials",
                      "WWW-Authenticate: Bearer")
        ELSE IF payload.sub = Absent
        THEN Rejected(401, "Invalid authentication credentials", Absent)
        ELSE LET user == get_user_by_username(rows, payload.sub)
             IN  IF user = None
                 THEN Rejected(401, "User not found", Absent)
                 ELSE IF ~user.is_active
                 THEN Rejected(400, "Inactive user", Absent)
                 ELSE [status |-> 200, detail |-> Absent, headers |-> Absent,
                       user |-> user]

Forbidden == [status |-> 403, detail |-> "Not enough permissions"]

get_current_active_superuser_open(current_user) ==
    [status |-> 200, detail |-> Absent, user |-> current_user]

get_current_active_superuser(current_user) ==
    IF ~current_user.is_superuser
    THEN [status |-> Forbidden.status, detail |-> Forbidden.detail, user |-> None]
    ELSE [status |-> 200, detail |-> Absent, user |-> current_user]

(***************************************************************************)
(* main.py: the item handlers, each from the resolved current_user on.     *)
(* An item carries its name; description and price travel with it and are  *)
(* read and written by the same statements.                                *)
(***************************************************************************)
ItemIds(rows) == {i.id : i \in rows}

\* SQLite gives an INTEGER PRIMARY KEY the largest id in the table plus one.
NextItemId(rows) ==
    IF rows = {} THEN 1
    ELSE (CHOOSE m \in ItemIds(rows) : \A k \in ItemIds(rows) : k <= m) + 1

\* session.get(Item, item_id)
GetItem(rows, item_id) ==
    IF item_id \in ItemIds(rows)
    THEN CHOOSE i \in rows : i.id = item_id
    ELSE None

NotFound == [status |-> 404, detail |-> "Item not found", body |-> None]

NotOwner == [status |-> 403, detail |-> "Not enough permissions", body |-> None]

Ok(body) == [status |-> 200, detail |-> Absent, body |-> body]

create_item(rows, item_create, current_user) ==
    LET item == [id |-> NextItemId(rows),
                 name |-> item_create.name,
                 owner_id |-> current_user.id]
    IN  [rows |-> rows \cup {item},
         resp |-> [status |-> 201, detail |-> Absent, body |-> item]]

\* skip and limit keep their defaults (0 and 100): every owned row is returned.
read_items(rows, current_user) ==
    [rows |-> rows,
     resp |-> Ok({i \in rows : i.owner_id = current_user.id})]

read_item(rows, item_id, current_user) ==
    LET item == GetItem(rows, item_id)
    IN  [rows |-> rows,
         resp |-> IF item = None THEN NotFound
                  ELSE IF item.owner_id # current_user.id THEN NotOwner
                  ELSE Ok(item)]

\* for key, value in item_update.dict(exclude_unset=True).items(): setattr(...)
ApplyUpdate(item, item_update) ==
    IF item_update.name = Unset THEN item
    ELSE [item EXCEPT !.name = item_update.name]

update_item_unchecked(rows, item_id, item_update, current_user) ==
    LET item == GetItem(rows, item_id)
    IN  IF item = None THEN [rows |-> rows, resp |-> NotFound]
        ELSE LET after == ApplyUpdate(item, item_update)
             IN  [rows |-> (rows \ {item}) \cup {after}, resp |-> Ok(after)]

update_item(rows, item_id, item_update, current_user) ==
    LET item == GetItem(rows, item_id)
    IN  IF item = None THEN [rows |-> rows, resp |-> NotFound]
        ELSE IF item.owner_id # current_user.id
        THEN [rows |-> rows, resp |-> NotOwner]
        ELSE LET after == ApplyUpdate(item, item_update)
             IN  [rows |-> (rows \ {item}) \cup {after}, resp |-> Ok(after)]

delete_item(rows, item_id, current_user) ==
    LET item == GetItem(rows, item_id)
    IN  IF item = None THEN [rows |-> rows, resp |-> NotFound]
        ELSE IF item.owner_id # current_user.id
        THEN [rows |-> rows, resp |-> NotOwner]
        ELSE [rows |-> rows \ {item},
              resp |-> [status |-> 200, detail |-> Absent,
                        body |-> "Item deleted successfully"]]

\* main.py list_all_users, after the superuser gate let the request through.
list_all_users(rows) ==
    Ok({UserRead(rows[i]) : i \in DOMAIN rows})

(***************************************************************************)
(* The bearer tokens a client may present: well-signed claims of every     *)
(* shape, expired and fresh, forged copies of the fresh ones, and          *)
(* the token it holds from its last login, as issued and tampered with.    *)
(***************************************************************************)
Signed(utcnow) ==
    [sub : Usernames \cup {Absent},
     type : {"access", "refresh"},
     exp : {utcnow - 1, utcnow + Minutes(ACCESS_TOKEN_EXPIRE_MINUTES).seconds},
     key : {SECRET_KEY}]

Presentable(utcnow, kept) ==
    Signed(utcnow)
    \cup {Tamper(t) : t \in {s \in Signed(utcnow) : s.type = "access" /\ s.exp > utcnow}}
    \cup (IF kept = None THEN {} ELSE {kept, Tamper(kept)})

(***************************************************************************)
(* The state after start-up: empty tables, nothing in flight.              *)
(***************************************************************************)
NoRequest == [op |-> "none"]

Init ==
    /\ users = <<>>
    /\ items = {}
    /\ pending = EmptyBag
    /\ now = 0
    /\ held = None
    /\ req = NoRequest

(***************************************************************************)
(* POST /register, served without interruption.                            *)
(***************************************************************************)
Register(user_create) ==
    LET existing_user == ExistingUser(users, user_create)
        done == CommitUser(users, user_create)
    IN  /\ users' = IF existing_user # None THEN users ELSE done.rows
        /\ req' = [op |-> "register", in |-> user_create,
                   out |-> IF existing_user # None THEN DuplicateUsername
                           ELSE done.resp]
        /\ UNCHANGED <<items, pending, now, held>>

(***************************************************************************)
(* POST /register as two steps: create_user up to the awaited lookup, and  *)
(* from session.add on.  Other requests run in between.                    *)
(***************************************************************************)
RegisterLookup(user_create) ==
    /\ BagCardinality(pending) < MaxPending
    /\ IF ExistingUser(users, user_create) # None
       THEN /\ req' = [op |-> "register", in |-> user_create,
                       out |-> DuplicateUsername]
            /\ UNCHANGED pending
       ELSE /\ pending' = pending (+) SetToBag({user_create})
            /\ req' = [op |-> "lookup", in |-> user_create]
    /\ UNCHANGED <<users, items, now, held>>

RegisterCommit(user_create) ==
    /\ BagIn(user_create, pending)
    /\ LET done == CommitUser(users, user_create)
       IN  /\ users' = done.rows
           /\ req' = [op |-> "register", in |-> user_create, out |-> done.resp]
    /\ pending' = pending (-) SetToBag({user_create})
    /\ UNCHANGED <<items, now, held>>

(***************************************************************************)
(* POST /login.                                                            *)
(***************************************************************************)
Login(username, password) ==
    LET resp == login(users, username, password, now)
    IN  /\ req' = [op |-> "login",
                   in |-> [username |-> username, password |-> password],
                   out |-> resp]
        /\ held' = IF resp.status = 200 THEN resp.body.access_token ELSE held
        /\ UNCHANGED <<users, items, pending, now>>

(***************************************************************************)
(* A protected request: Depends(get_current_user) resolves the identity,   *)
(* then the handler runs with it.                                          *)
(***************************************************************************)
ResolveIdentity(token) ==
    /\ req' = [op |-> "auth", in |-> token, at |-> now,
               out |-> get_current_user(token, users, now)]
    /\ UNCHANGED <<users, items, pending, now, held>>

Resolved == req.op = "auth" /\ req.out.status = 200

current_user == req.out.user

Serve(op, in, done) ==
    /\ items' = done.rows
    /\ req' = [op |-> op, in |-> in, ident |-> current_user, out |-> done.resp]
    /\ UNCHANGED <<users, pending, now, held>>

CreateItem(item_create) ==
    /\ Resolved
    /\ NextItemId(items) <= MaxItemId
    /\ Serve("create_item", item_create, create_item(items, item_create, current_user))

ReadItems ==
    /\ Resolved
    /\ Serve("read_items", None, read_items(items, current_user))

ReadItem(item_id) ==
    /\ Resolved
    /\ Serve("read_item", [item_id |-> item_id],
             read_item(items, item_id, current_user))

UpdateItem(item_id, item_update) ==
    /\ Resolved
    /\ Serve("update_item", [item_id |-> item_id, item_update |-> item_update],
             update_item(items, item_id, item_update, current_user))

DeleteItem(item_id) ==
    /\ Resolved
    /\ Serve("delete_item", [item_id |-> item_id],
             delete_item(items, item_id, current_user))

\* GET /admin/users: Depends(get_current_active_superuser), then the listing.
ListAllUsers ==
    /\ Resolved
    /\ LET gate == get_current_active_superuser(current_user)
       IN  req' = [op |-> "list_all_users", in |-> None, ident |-> current_user,
                   gate |-> gate,
                   out |-> IF gate.status # 200
                           THEN [status |-> gate.status, detail |-> gate.detail,
                                 body |-> None]
                           ELSE list_all_users(users)]
    /\ UNCHANGED <<users, items, pending, now, held>>

(***************************************************************************)
(* The clock.                                                              *)
(***************************************************************************)
Tick ==
    /\ now + TickStep <= MaxTime
    /\ now' = now + TickStep
    /\ UNCHANGED <<users, items, pending, held, req>>

(***************************************************************************)
(* A change of a user's flags made in the database, outside the handlers.  *)
(***************************************************************************)
SetFlags(id, is_active, is_superuser) ==
    /\ id \in DOMAIN users
    /\ users' = [users EXCEPT ![id].is_active = is_active,
                              ![id].is_superuser = is_superuser]
    /\ users' # users
    /\ UNCHANGED <<items, pending, now, held, req>>

(***************************************************************************)
(* The token codec called on its own: issue(subject, ttl) and verify.      *)
(***************************************************************************)
Issue(sub, expires_delta) ==
    LET token == create_access_token([sub |-> sub], expires_delta, now)
    IN  /\ held' = token
        /\ req' = [op |-> "issue",
                   in |-> [sub |-> sub, expires_delta |-> expires_delta],
                   at |-> now, out |-> token]
        /\ UNCHANGED <<users, items, pending, now>>

Verify(token) ==
    /\ req' = [op |-> "verify", in |-> token, at |-> now,
               out |-> decode_access_token(token, now)]
    /\ UNCHANGED <<users, items, pending, now, held>>

(***************************************************************************)
(* Specifications.                                                         *)
(***************************************************************************)
ItemUpdates == [name : ItemNames \cup {Unset}]
ItemCreates == [name : ItemNames]
ItemIdInputs == 1 .. MaxItemId

\* The whole API, each request served in one piece after its identity is
\* resolved.
Next ==
    \/ \E c \in Candidates : Register(c)
    \/ \E u \in Usernames, p \in Passwords : Login(u, p)
    \/ \E t \in Presentable(now, held) : ResolveIdentity(t)
    \/ \E c \in ItemCreates : CreateItem(c)
    \/ ReadItems
    \/ \E i \in ItemIdInputs : ReadItem(i)
    \/ \E i \in ItemIdInputs, u \in ItemUpdates : UpdateItem(i, u)
    \/ \E i \in ItemIdInputs : DeleteItem(i)
    \/ ListAllUsers
    \/ Tick

Spec == Init /\ [][Next]_vars

\* Registrations racing each other and logins.
NextRace ==
    \/ \E c \in Candidates : RegisterLookup(c)
    \/ \E c \in Candidates : RegisterCommit(c)
    \/ \E u \in Usernames, p \in Passwords : Login(u, p)

SpecRace == Init /\ [][NextRace]_vars

\* Identity resolution and the superuser gate while an operator changes
\* users' flags in the database.
NextOps ==
    \/ \E c \in Candidates : Register(c)
    \/ \E u \in Usernames, p \in Passwords : Login(u, p)
    \/ \E t \in Presentable(now, held) : ResolveIdentity(t)
    \/ ListAllUsers
    \/ \E i \in DOMAIN users, a \in BOOLEAN, s \in BOOLEAN : SetFlags(i, a, s)
    \/ Tick

SpecOps == Init /\ [][NextOps]_vars

\* The token codec alone, for every kind of ttl a caller may pass.
Deltas ==
    {None, Seconds(-1), Seconds(0), Seconds(1), Minutes(ACCESS_TOKEN_EXPIRE_MINUTES)}

NextCodec ==
    \/ \E u \in Usernames, d \in Deltas : Issue(u, d)
    \/ \E t \in (IF held = None THEN {} ELSE {held, Tamper(held)}) : Verify(t)
    \/ Tick

SpecCodec == Init /\ [][NextCodec]_vars

(***************************************************************************)
(* Properties.                                                             *)
(***************************************************************************)
UserNamed(rows, username) == {i \in DOMAIN rows : rows[i].username = username}

\* C1: every identity resolution ends in exactly one outcome, decided in this
\* order: the token does not decode -> 401; the claims carry no sub -> 401;
\* no user is named sub -> 401; that user is inactive -> 400; otherwise the
\* user's row is returned.  No resolution returns an inactive user.
C1_ResolutionOrder ==
    [][(req'.op = "auth" /\ req' # req) =>
        LET t == req'.in
            o == req'.out
            decodes == t.key = SECRET_KEY /\ t.exp >= now
            named == UserNamed(users, t.sub)
        IN  /\ users' = users
            /\ IF ~decodes THEN o.status = 401 /\ o.user = None
               ELSE IF t.sub = Absent THEN o.status = 401 /\ o.user = None
               ELSE IF named = {} THEN o.status = 401 /\ o.user = None
               ELSE IF \E i \in named : ~users[i].is_active
               THEN o.status = 400 /\ o.user = None
               ELSE o.status = 200 /\ \E i \in named : o.user = users[i]
            /\ o.status = 200 => o.user.is_active
      ]_vars

\* C1 witness: the token a login issued is refused with 400 once its user
\* has been made inactive.
C1_Witness ==
    /\ req.op = "auth"
    /\ held # None
    /\ req.in = held
    /\ req.out.status = 400
    /\ req.out.detail = "Inactive user"

\* C2: identity resolution accepts a token only if it is signed with the
\* service secret, its type tag is "access", and the time of the check lies
\* before its exp.
C2_OnlyValidAccessTokens ==
    (req.op = "auth" /\ req.out.status = 200) =>
        /\ req.in.key = SECRET_KEY
        /\ req.in.type = "access"
        /\ req.at < req.in.exp

\* C7: issue(subject, ttl) sets exp = issue time + ttl for every ttl the
\* caller passes, zero and negative included, and uses the 30 minute default
\* only when no ttl is passed.
C7_ExpIsIssueTimePlusTtl ==
    req.op = "issue" =>
        req.out.exp = req.at + (IF req.in.expires_delta = None
                                THEN 60 * ACCESS_TOKEN_EXPIRE_MINUTES
                                ELSE req.in.expires_delta.seconds)

\* C3: a register request made while its username is already committed
\* fails with DuplicateUsername (400) and leaves the user table as it was.
C3_DuplicateUsernameRejected ==
    [][(/\ req'.op \in {"register", "lookup"}
        /\ BagCardinality(pending') >= BagCardinality(pending)
        /\ UserNamed(users, req'.in.username) # {})
       =>
       (/\ req'.op = "register"
        /\ req'.out.status = 400
        /\ req'.out.detail = "Username already exists"
        /\ users' = users)
      ]_vars

\* C3 witness: a second register of a committed username was refused.
C3_Witness ==
    /\ req.op = "register"
    /\ req.out.status = 400
    /\ Len(users) = 1
    /\ users[1].username = req.in.username

\* C4: under every interleaving of registrations, no two user rows share a
\* username and no two share an email.
C4_UniqueUsernameAndEmail ==
    \A i, j \in DOMAIN users :
        i # j => /\ users[i].username # users[j].username
                 /\ users[i].email # users[j].email

\* C4 witness: two registrations passed the lookup together and the commit
\* of the second one was refused.
C4_Witness ==
    /\ req.op = "register"
    /\ req.out.status = 500
    /\ \E i \in DOMAIN users :
          \/ users[i].username = req.in.username
          \/ users[i].email = req.in.email

\* C5: a failed login answers the same whether or not the username exists:
\* 401, the same message and headers, no token; and it changes no state.
C5_LoginFailuresAlike ==
    [][(req'.op = "login" /\ req' # req /\ req'.out.status # 200) =>
        /\ \A u \in Usernames, p \in Passwords :
              authenticate_user(users, u, p) = None
                  => login(users, u, p, now) = req'.out
        /\ req'.out.status = 401
        /\ req'.out.body = None
        /\ UNCHANGED <<users, items, pending, held>>
      ]_vars

\* C5 witness: a wrong password for a known user was refused while another
\* username is unknown.
C5_Witness ==
    /\ req.op = "login"
    /\ req.out.status = 401
    /\ UserNamed(users, req.in.username) # {}
    /\ \E u \in Usernames : UserNamed(users, u) = {}

\* C6: after register(u, p) succeeds, login(u, p) succeeds with a token
\* whose sub is u; that token, presented unmodified before it expires,
\* resolves to the row of u and to no other; with its signature altered it
\* is rejected.
C6_RoundTrip ==
    /\ (req.op = "register" /\ req.out.status = 201) =>
          LET resp == login(users, req.in.username, req.in.password, now)
          IN  /\ resp.status = 200
              /\ resp.body.access_token.sub = req.in.username
    /\ (req.op = "login" /\ req.out.status = 200) =>
          /\ req.out.body.access_token.sub = req.in.username
          /\ req.out.body.user.username = req.in.username
          /\ held = req.out.body.access_token
    /\ (req.op = "auth" /\ held # None /\ req.in = held /\ req.at < held.exp) =>
          /\ req.out.status = 200
          /\ req.out.user.username = held.sub
          /\ \E i \in DOMAIN users : users[i] = req.out.user
    /\ (req.op = "auth" /\ held # None /\ req.in = Tamper(held)) =>
          req.out.status = 401

\* C6 witness: with two users registered, the token of the second one's
\* login resolved to the second user.
C6_Witness ==
    /\ req.op = "auth"
    /\ held # None
    /\ req.in = held
    /\ req.out.status = 200
    /\ Len(users) = 2
    /\ req.out.user.id = 2

\* C8: the superuser gate returns the resolved identity unchanged when it is
\* a superuser and fails with 403 when it is not; it changes no state; the
\* user listing goes only to requests that passed it after identity
\* resolution.
C8_SuperuserGate ==
    [][(req'.op = "list_all_users" /\ req' # req) =>
        /\ req.op = "auth" /\ req.out.status = 200
        /\ req'.ident = req.out.user
        /\ IF req'.ident.is_superuser
           THEN /\ req'.gate.status = 200
                /\ req'.gate.user = req'.ident
                /\ req'.out.status = 200
                /\ req'.out.body = {UserRead(users[i]) : i \in DOMAIN users}
           ELSE /\ req'.gate.status = 403
                /\ req'.out.status = 403
                /\ req'.out.body = None
        /\ UNCHANGED <<users, items, pending, held>>
      ]_vars

\* C8 witness: a superuser was given the listing.
C8_Witness ==
    /\ req.op = "list_all_users"
    /\ req.out.status = 200
    /\ req.ident.is_superuser

ItemOps == {"create_item", "read_items", "read_item", "update_item", "delete_item"}

\* C9: an item is returned, modified or removed only in a request whose
\* resolved identity owns it; another user's request on an existing item
\* fails with 403 and leaves it unchanged; an item's owner_id is the id of
\* the user who created it and never changes.
C9_OwnerOnly ==
    [][/\ items' # items =>
            req.op = "auth" /\ req'.op \in {"create_item", "update_item", "delete_item"}
       /\ \A i \in items, j \in items' : i.id = j.id => i.owner_id = j.owner_id
       /\ (req.op = "auth" /\ req'.op \in ItemOps) =>
            LET me == req'.ident.id
                o == req'.out
            IN  /\ req'.ident = req.out.user /\ req.out.status = 200
                /\ \A i \in items : i \notin items' => i.owner_id = me
                /\ \A j \in items' : j \notin items => j.owner_id = me
                /\ req'.op = "read_items" =>
                      o.body = {i \in items : i.owner_id = me}
                /\ (req'.op = "read_item" /\ o.status = 200) =>
                      o.body \in items /\ o.body.owner_id = me
                /\ req'.op \in {"read_item", "update_item", "delete_item"} =>
                      \A i \in items :
                          (i.id = req'.in.item_id /\ i.owner_id # me) =>
                              o.status = 403 /\ o.body = None /\ items' = items
      ]_vars

\* C9 witness: a user's update of another user's item was refused and the
\* item is still there.
C9_Witness ==
    /\ req.op = "update_item"
    /\ req.out.status = 403
    /\ \E i \in items : i.id = req.in.item_id /\ i.owner_id # req.ident.id

\* C10: no operation of the API modifies or deletes a user row; every row is
\* created active and not superuser and stays so; hence no request passes
\* the superuser gate and none is refused as inactive.
C10_UsersOnlyAdded ==
    [][/\ \A i \in DOMAIN users : i \in DOMAIN users' /\ users'[i] = users[i]
       /\ \A i \in DOMAIN users' : users'[i].is_active /\ ~users'[i].is_superuser
       /\ req'.op = "list_all_users" => req'.out.status = 403
       /\ req'.op = "auth" => req'.out.status # 400
      ]_vars

\* C10 witness: with two users registered, a request reached the superuser
\* gate and was refused.
C10_Witness ==
    /\ req.op = "list_all_users"
    /\ req.out.status = 403
    /\ Len(users) = 2

====
